---------------------------- MODULE Spec2Model ----------------------------
(***************************************************************************)
(* Model of the audio-classification service (services/audioclassify):     *)
(*   main.py    lifespan, _parse_float32, GET /health, POST /emotion       *)
(*   models.py  _collapse_scene, EmotionClassifier.classify                *)
(*                                                                         *)
(* Numbers.  Scores are Python floats.  They are modelled as integers in   *)
(* units of 10^-5 (100000 is 1.0), so that round(x, 4) is a real rounding  *)
(* to a multiple of 10 units.  Scene class scores are integers in an       *)
(* arbitrary unit and a normalised bucket is the exact fraction num/den.   *)
(* A float32 sample is identified by its IEEE-754 fields.                  *)
(***************************************************************************)
EXTENDS Integers, Sequences, FiniteSets, TLC

VARIABLES
    \* ---- _parse_float32 (main.py) ----
    body,            \* the request body: a sequence of bytes
    samples,         \* the decoded array: [raised, data]
    parse_pc,        \* "call" | "done"  ("unused" outside SpecParse)
    \* ---- EmotionClassifier.classify (models.py) ----
    result,          \* what self.model.generate returned: a list of entries
    labels,          \* local `labels`, once lines 71-76 made it a list
    probs,           \* local `probs`, once lines 72-78 made it a list
    i,               \* loop index of `for i, lbl in enumerate(labels)`
    scores,          \* local dict `scores`, in insertion order
    emotion_ret,     \* the returned dict
    emotion_pc,      \* "generate" | "loop" | "done"
    \* ---- _collapse_scene (models.py) ----
    scores_521,      \* argument: one score per fine-grained class
    class_names,     \* argument: the class names
    buckets,         \* local dict `buckets`: bucket -> [num, den]
    k,               \* loop index of `for i, name in enumerate(class_names)`
    divided,         \* whether the division of line 33 was executed
    scene_pc,        \* "loop" | "done"
    \* ---- the service (main.py) ----
    emotion_model,   \* the module-level global
    phase,           \* server lifecycle: "startup" | "loading" | "serving" | "failed"
    loop,            \* who occupies the event-loop thread: "idle" or a task
    rq,              \* the requests: id -> record
    queue            \* the default executor's work queue (FIFO of request ids)

parseVars   == <<body, samples, parse_pc>>
emotionVars == <<result, labels, probs, i, scores, emotion_ret, emotion_pc>>
sceneVars   == <<scores_521, class_names, buckets, k, divided, scene_pc>>
serviceVars == <<emotion_model, phase, loop, rq, queue>>
vars        == <<parseVars, emotionVars, sceneVars, serviceVars>>
\* what the service leaves alone
otherVars   == <<parseVars, emotionVars, sceneVars>>

\* A call's outcome: the exception it raised ("none" when it returned) and
\* the value it returned.
Returned(v) == [raised |-> "none", data |-> v]
Raised(e) == [raised |-> e, data |-> <<>>]

RECURSIVE SeqsUpTo(_, _)
\* All sequences over S of length at most n.
SeqsUpTo(S, n) ==
    IF n = 0 THEN {<<>>}
    ELSE LET shorter == SeqsUpTo(S, n - 1)
         IN  shorter \cup {Append(s, x) : s \in {t \in shorter : Len(t) = n - 1}, x \in S}

(***************************************************************************)
(* Part 1.  _parse_float32                                                 *)
(***************************************************************************)
MaxBody == 11
ByteVals == {63, 128}

\* struct "<f": four bytes, least significant first, are one 32-bit word
\* b[1] + 2^8 b[2] + 2^16 b[3] + 2^24 b[4], read as an IEEE-754 binary32:
\* bit 31 the sign, bits 30..23 the biased exponent, bits 22..0 the fraction.
UnpackF(b) ==
    [sign |-> b[4] \div 128,
     exponent |-> (b[4] % 128) * 2 + b[3] \div 128,
     fraction |-> (b[3] % 128) * 65536 + b[2] * 256 + b[1]]

\* struct.unpack(f"<{n}f", buf): buf must be exactly 4n bytes long
\* (struct.error otherwise); item j is read from the j-th group of four.
StructUnpack(n, buf) ==
    IF Len(buf) # 4 * n THEN Raised("struct.error")
    ELSE Returned([j \in 1..n |-> UnpackF(SubSeq(buf, 4 * (j - 1) + 1, 4 * j))])

\* body[:m]
SliceTo(s, m) == SubSeq(s, 1, IF m < Len(s) THEN m ELSE Len(s))

_parse_float32_ceil(b) ==
    LET n == (Len(b) + 3) \div 4
    IN  StructUnpack(n, SliceTo(b, n * 4))

_parse_float32(b) ==
    LET n == Len(b) \div 4
    IN  StructUnpack(n, SliceTo(b, n * 4))

ParseInit ==
    /\ body \in SeqsUpTo(ByteVals, MaxBody)
    /\ samples = Returned(<<>>)
    /\ parse_pc = "call"

\* samples = _parse_float32(body)
ParseCall ==
    /\ parse_pc = "call"
    /\ samples' = _parse_float32(body)
    /\ parse_pc' = "done"
    /\ UNCHANGED body

ParseUnused ==
    /\ body = <<>>
    /\ samples = Returned(<<>>)
    /\ parse_pc = "unused"

(***************************************************************************)
(* Part 2.  EmotionClassifier.classify                                     *)
(***************************************************************************)
EMOTION_LABELS == <<"neutral", "happy", "angry", "sad", "frustrated", "surprised">>

Range(s) == {s[j] : j \in 1..Len(s)}

\* ---- a Python dict in insertion order: a sequence of [key, val] ----
DictKeys(d) == {d[j].key : j \in 1..Len(d)}
DictHas(d, key) == key \in DictKeys(d)
DictGet(d, key) == d[CHOOSE j \in 1..Len(d) : d[j].key = key].val
\* d[key] = val: an existing key keeps its place, a new key goes last.
DictSet(d, key, val) ==
    IF DictHas(d, key)
    THEN [j \in 1..Len(d) |-> IF d[j].key = key THEN [key |-> key, val |-> val] ELSE d[j]]
    ELSE Append(d, [key |-> key, val |-> val])
\* max(d, key=d.get): the first key, in insertion order, whose value no
\* other value exceeds.
DictArgMax(d) ==
    d[CHOOSE j \in 1..Len(d) :
        /\ \A m \in 1..Len(d) : d[m].val <= d[j].val
        /\ \A m \in 1..(j - 1) : d[m].val < d[j].val].key

\* round(x, 4) of a float given in units of 10^-5: to the nearest multiple
\* of 10 units.  (The inputs below never lie exactly half way, as a binary
\* float never does.)
Round4(x) == ((x + 5) \div 10) * 10

One == 100000

\* ---- what self.model.generate may return ----
MaxLabels == 7
LabelNames == {"happy", "angry", "<unk>"}
ProbProfiles ==
    { <<30000, 70000, 12346, 0, 99999, 4994>>,
      <<50000, 50000, 50000, 50000, 50000, 50000>> }
ProbPrefix(p, m) == [j \in 1..m |-> p[((j - 1) % Len(p)) + 1]]

\* A field of an entry: absent, a single string, a single number or a list.
Missing == [tag |-> "missing", s |-> "", x |-> 0, l |-> <<>>]
Str(s) == [tag |-> "str", s |-> s, x |-> 0, l |-> <<>>]
Num(x) == [tag |-> "num", s |-> "", x |-> x, l |-> <<>>]
List(l) == [tag |-> "list", s |-> "", x |-> 0, l |-> l]

LabelFields ==
    {Missing} \cup {Str(s) : s \in LabelNames}
              \cup {List(l) : l \in SeqsUpTo(LabelNames, MaxLabels)}
\* The labels a field stands for once lines 71-76 have run.
FieldLabels(f) ==
    CASE f.tag = "missing" -> EMOTION_LABELS
      [] f.tag = "str" -> <<f.s>>
      [] OTHER -> f.l
ScoreFields(n) ==
    {Missing} \cup {Num(p[1]) : p \in ProbProfiles}
              \cup {List(ProbPrefix(p, m)) : p \in ProbProfiles, m \in 0..n}
GenerateOutputs ==
    {<<>>} \cup
    { <<[labels |-> lf, scores |-> sf]>> :
        lf \in LabelFields, sf \in ScoreFields(MaxLabels) }

\* entry.get(name, default) on the first entry, entry = {} when there is none
EntryGet(res, name, default) ==
    IF res = <<>> THEN default
    ELSE IF res[1][name].tag = "missing" THEN default
    ELSE res[1][name]

EmotionInit ==
    /\ result \in {r \in GenerateOutputs :
            r = <<>> \/ r[1].scores.tag # "list"
                     \/ Len(r[1].scores.l) <= Len(FieldLabels(r[1].labels))}
    /\ labels = <<>>
    /\ probs = <<>>
    /\ i = 0
    /\ scores = <<>>
    /\ emotion_ret = [label |-> "", confidence |-> 0, scores |-> <<>>]
    /\ emotion_pc = "generate"

\* lines 70-78: the first entry's labels, a single string made a list
ExtractLabels(res) ==
    LET l == EntryGet(res, "labels", List(EMOTION_LABELS))
    IN  IF l.tag = "str" THEN <<l.s>> ELSE l.l

\* lines 70-78: the first entry's scores, a single number made a list
ExtractProbs(res) ==
    LET p == EntryGet(res, "scores", List(<<>>))
    IN  IF p.tag = "num" THEN <<p.x>> ELSE p.l

\* lines 69-80
EmotionExtract ==
    /\ emotion_pc = "generate"
    /\ labels' = ExtractLabels(result)
    /\ probs' = ExtractProbs(result)
    /\ scores' = <<>>
    /\ i' = 0
    /\ emotion_pc' = "loop"
    /\ UNCHANGED <<result, emotion_ret>>

MappedByIndex(lbl, n) ==
    IF n < Len(EMOTION_LABELS) THEN EMOTION_LABELS[n + 1] ELSE lbl

\* line 82: the key the label at (0-based) position n is stored under
Mapped(lbl, n) ==
    IF lbl \in Range(EMOTION_LABELS) THEN lbl
    ELSE IF n < Len(EMOTION_LABELS) THEN EMOTION_LABELS[n + 1]
    ELSE lbl

\* line 83, right-hand side
ScoreAt(p, n) == IF n < Len(p) THEN Round4(p[n + 1]) ELSE 0

\* lines 82-83: the body of the loop at position n
LoopBody(d, ls, ps, n) == DictSet(d, Mapped(ls[n + 1], n), ScoreAt(ps, n))

\* lines 81-83: one iteration of the loop
EmotionLoop ==
    /\ emotion_pc = "loop"
    /\ i < Len(labels)
    /\ scores' = LoopBody(scores, labels, probs, i)
    /\ i' = i + 1
    /\ UNCHANGED <<result, labels, probs, emotion_ret, emotion_pc>>

\* lines 85-86
WithFallback(d) == IF d = <<>> THEN <<[key |-> "neutral", val |-> One]>> ELSE d

PickLabelLast(d) == d[Len(d)].key

\* line 88
PickLabel(d) == DictArgMax(d)

\* lines 88-95: the returned dict (latency_ms, a wall-clock reading, is
\* left out)
ResultOf(d) ==
    LET label == PickLabel(d)
    IN  [label |-> label, confidence |-> Round4(DictGet(d, label)), scores |-> d]

\* lines 85-95
EmotionReturn ==
    /\ emotion_pc = "loop"
    /\ i = Len(labels)
    /\ scores' = WithFallback(scores)
    /\ emotion_ret' = ResultOf(WithFallback(scores))
    /\ emotion_pc' = "done"
    /\ UNCHANGED <<result, labels, probs, i>>

RECURSIVE ClassifyLoop(_, _, _, _)
\* lines 80-83 run to the end, from position n
ClassifyLoop(d, ls, ps, n) ==
    IF n >= Len(ls) THEN d
    ELSE ClassifyLoop(LoopBody(d, ls, ps, n), ls, ps, n + 1)

\* EmotionClassifier.classify as one call, given what generate returned
classify(res) ==
    ResultOf(WithFallback(ClassifyLoop(<<>>, ExtractLabels(res), ExtractProbs(res), 0)))

EmotionUnused ==
    /\ result = <<>>
    /\ labels = <<>>
    /\ probs = <<>>
    /\ i = 0
    /\ scores = <<>>
    /\ emotion_ret = [label |-> "", confidence |-> 0, scores |-> <<>>]
    /\ emotion_pc = "unused"

(***************************************************************************)
(* Part 3.  _collapse_scene                                                *)
(***************************************************************************)
\* SCENE_LABELS: the buckets in the dict's order, and each one's keywords
SceneOrder == <<"speech", "music", "silence", "noise">>
SCENE_LABELS ==
    [b \in Range(SceneOrder) |->
        CASE b = "speech" ->
               {"Speech", "Narration, monologue", "Conversation", "Speech synthesizer"}
          [] b = "music" -> {"Music", "Musical instrument", "Singing", "Song"}
          [] b = "silence" -> {"Silence"}
          [] OTHER ->
               {"Noise", "White noise", "Static", "Hum", "Buzz",
                "Mechanical fan", "Air conditioning", "Engine"}]
\* [*SCENE_LABELS, "other"]
BucketNames == Range(SceneOrder) \cup {"other"}

MaxClasses == 3
ClassNames == {"Speech", "Singing", "Silence", "Engine", "Dog barking"}
ClassScores == {0, 1, 2}

\* a bucket's value: the exact fraction num/den (den = 1 until line 33)
Frac(n, d) == [num |-> n, den |-> d]
AddTo(b, bucket, x) ==
    [b EXCEPT ![bucket] = Frac(b[bucket].num + x, b[bucket].den)]

RECURSIVE ScanBuckets(_, _, _, _)
\* lines 24-28: the buckets in order, the first one whose keywords hold
\* `name` takes the score and ends the scan
ScanBuckets(b, name, x, j) ==
    IF j > Len(SceneOrder) THEN [buckets |-> b, placed |-> FALSE]
    ELSE IF name \in SCENE_LABELS[SceneOrder[j]]
         THEN [buckets |-> AddTo(b, SceneOrder[j], x), placed |-> TRUE]
         ELSE ScanBuckets(b, name, x, j + 1)

AccrueNeverPlaced(b, name, x) ==
    AddTo(ScanBuckets(b, name, x, 1).buckets, "other", x)

\* lines 23-30: the body of the loop over the classes
Accrue(b, name, x) ==
    LET r == ScanBuckets(b, name, x, 1)
    IN  IF ~r.placed THEN AddTo(r.buckets, "other", x) ELSE r.buckets

RECURSIVE SumOver(_, _)
\* sum(f[x] for x in S)
SumOver(f, S) ==
    IF S = {} THEN 0
    ELSE LET x == CHOOSE y \in S : TRUE IN f[x] + SumOver(f, S \ {x})

\* line 31: sum(buckets.values())
BucketTotal(b) == SumOver([n \in BucketNames |-> b[n].num], BucketNames)

NormaliseByMax(b, total) ==
    LET top == CHOOSE m \in {b[n].num : n \in BucketNames} :
                   \A n \in BucketNames : b[n].num <= m
    IN  [n \in BucketNames |-> Frac(b[n].num, top)]

\* line 33: {k: v / total for k, v in buckets.items()}
Normalise(b, total) == [n \in BucketNames |-> Frac(b[n].num, total)]

SceneInit ==
    /\ \E n \in 0..MaxClasses :
          /\ class_names \in [1..n -> ClassNames]
          /\ scores_521 \in [1..n -> ClassScores]
    /\ buckets = [n \in BucketNames |-> Frac(0, 1)]
    /\ k = 0
    /\ divided = FALSE
    /\ scene_pc = "loop"

\* lines 22-30: one class
SceneLoop ==
    /\ scene_pc = "loop"
    /\ k < Len(class_names)
    /\ buckets' = Accrue(buckets, class_names[k + 1], scores_521[k + 1])
    /\ k' = k + 1
    /\ UNCHANGED <<scores_521, class_names, divided, scene_pc>>

\* lines 31-34
SceneNormalise ==
    /\ scene_pc = "loop"
    /\ k = Len(class_names)
    /\ LET total == BucketTotal(buckets)
       IN  IF total > 0
           THEN buckets' = Normalise(buckets, total) /\ divided' = TRUE
           ELSE UNCHANGED <<buckets, divided>>
    /\ scene_pc' = "done"
    /\ UNCHANGED <<scores_521, class_names, k>>

SceneUnused ==
    /\ scores_521 = <<>>
    /\ class_names = <<>>
    /\ buckets = [n \in BucketNames |-> Frac(0, 1)]
    /\ k = 0
    /\ divided = FALSE
    /\ scene_pc = "unused"

(***************************************************************************)
(* Part 4.  The service                                                    *)
(***************************************************************************)
MaxRequests == 3
MaxWorkers == 1
Requests == 1..MaxRequests

\* the bodies and the generate outputs the service is exercised with
ServiceBodies == {<<63, 128, 63, 128, 63>>}
ServiceOutputs ==
    { <<>>,
      <<[labels |-> List(<<"happy", "angry">>), scores |-> List(<<30000, 70000>>)]>> }

NoResponse == [code |-> 0, json |-> [status |-> ""]]
\* the framework's answer to an exception no handler catches
ServerError == [code |-> 500, json |-> [status |-> "error"]]
NoRequest ==
    [kind |-> "none", pc |-> "absent", body |-> <<>>, samples |-> Returned(<<>>),
     handle |-> "None", future |-> Returned(<<>>), response |-> NoResponse,
     inflight |-> 0]
\* `inflight` is an observation, not program state: how many requests were
\* inside run_in_executor when a health check was answered.
\* A handler's locals (body, samples, handle, future) end with the handler.
Answered(kind, resp, n) ==
    [NoRequest EXCEPT !.kind = kind, !.pc = "done", !.response = resp, !.inflight = n]
Inflight == Cardinality({r \in Requests : rq[r].pc \in {"queued", "classifying"}})

ServiceInit ==
    /\ emotion_model = "None"
    /\ phase = "startup"
    /\ loop = "idle"
    /\ rq = [r \in Requests |-> NoRequest]
    /\ queue = <<>>

\* A host that sends no lifespan events (lifespan switched off, a mounted
\* sub-application, a test client used without its context manager) serves
\* requests with line 16 never run.
AnyHostInit ==
    /\ emotion_model = "None"
    /\ phase \in {"startup", "serving"}
    /\ loop = "idle"
    /\ rq = [r \in Requests |-> NoRequest]
    /\ queue = <<>>

\* lifespan, line 16 begins: EmotionClassifier() runs on the event-loop
\* thread
LifespanEnter ==
    /\ phase = "startup"
    /\ loop = "idle"
    /\ phase' = "loading"
    /\ loop' = "lifespan"
    /\ UNCHANGED <<emotion_model, rq, queue, otherVars>>

LifespanYieldLocal ==
    /\ phase = "loading"
    /\ loop = "lifespan"
    /\ phase' = "serving"
    /\ loop' = "idle"
    /\ UNCHANGED <<emotion_model, rq, queue, otherVars>>

\* lifespan, lines 15-17: the global is assigned, then the yield lets the
\* server start serving
LifespanYield ==
    /\ phase = "loading"
    /\ loop = "lifespan"
    /\ emotion_model' = "EmotionClassifier"
    /\ phase' = "serving"
    /\ loop' = "idle"
    /\ UNCHANGED <<rq, queue, otherVars>>

\* lifespan, line 16 raises (the model cannot be loaded): startup is
\* aborted and no request is ever served
LifespanFail ==
    /\ phase = "loading"
    /\ loop = "lifespan"
    /\ phase' = "failed"
    /\ loop' = "idle"
    /\ UNCHANGED <<emotion_model, rq, queue, otherVars>>

\* The server hands a request to the application: a task for its handler is
\* made ready on the loop.  Requests are numbered in the order they arrive.
Arrive(r) ==
    /\ phase = "serving"
    /\ loop = "idle"
    /\ rq[r].pc = "absent"
    /\ \A q \in Requests : q < r => rq[q].pc # "absent"
    /\ \E kind \in {"health", "emotion"} :
         \E b \in (IF kind = "emotion" THEN ServiceBodies ELSE {<<>>}) :
            rq' = [rq EXCEPT ![r] = [NoRequest EXCEPT !.kind = kind, !.pc = "ready",
                                                      !.body = b]]
    /\ UNCHANGED <<emotion_model, phase, loop, queue, otherVars>>

HealthJsonNeedsModel == [status |-> IF emotion_model = "None" THEN "loading" ELSE "ok"]

\* line 30
HealthJson == [status |-> "ok"]

\* health, lines 28-30
Health(r) ==
    /\ loop = "idle"
    /\ rq[r].kind = "health"
    /\ rq[r].pc = "ready"
    /\ rq' = [rq EXCEPT ![r] = Answered("health", [code |-> 200, json |-> HealthJson],
                                         Inflight)]
    /\ UNCHANGED <<emotion_model, phase, loop, queue, otherVars>>

\* classify_emotion, line 35: the handler runs up to `await request.body()`
EmotionStart(r) ==
    /\ loop = "idle"
    /\ rq[r].kind = "emotion"
    /\ rq[r].pc = "ready"
    /\ rq' = [rq EXCEPT ![r].pc = "await_body"]
    /\ UNCHANGED <<emotion_model, phase, loop, queue, otherVars>>

EmotionSubmitInline(r) ==
    /\ loop = "idle"
    /\ rq[r].kind = "emotion"
    /\ rq[r].pc = "await_body"
    /\ emotion_model # "None"
    /\ rq' = [rq EXCEPT ![r].pc = "classifying",
                        ![r].samples = _parse_float32(rq[r].body),
                        ![r].handle = emotion_model]
    /\ loop' = "classify"
    /\ UNCHANGED <<emotion_model, phase, queue, otherVars>>

\* classify_emotion, lines 36-39: the body is decoded, emotion_model.classify
\* is looked up and handed with the samples to the default executor, and the
\* handler awaits the future.  With emotion_model None the lookup raises
\* AttributeError and the framework answers 500.
EmotionSubmit(r) ==
    /\ loop = "idle"
    /\ rq[r].kind = "emotion"
    /\ rq[r].pc = "await_body"
    /\ IF emotion_model = "None"
       THEN /\ rq' = [rq EXCEPT ![r] = Answered("emotion", ServerError, 0)]
            /\ UNCHANGED queue
       ELSE /\ rq' = [rq EXCEPT ![r].pc = "queued",
                                ![r].samples = _parse_float32(rq[r].body),
                                ![r].handle = emotion_model]
            /\ queue' = Append(queue, r)
    /\ UNCHANGED <<emotion_model, phase, loop, otherVars>>

\* The default executor: a free worker thread takes the oldest queued call.
WorkerTake(r) ==
    /\ queue # <<>>
    /\ r = Head(queue)
    /\ Cardinality({q \in Requests : rq[q].pc = "classifying"}) < MaxWorkers
    /\ rq' = [rq EXCEPT ![r].pc = "classifying"]
    /\ queue' = Tail(queue)
    /\ UNCHANGED <<emotion_model, phase, loop, otherVars>>

\* models.py lines 67-95 on the worker thread: generate returns and
\* classify returns the result, or generate raises.  The future is set and
\* the handler is made ready again.  (A hung call never takes this step.)
WorkerReturn(r) ==
    /\ rq[r].pc = "classifying"
    /\ \E out \in {Returned(classify(res)) : res \in ServiceOutputs}
                     \cup {Raised("Exception")} :
          rq' = [rq EXCEPT ![r].pc = "resolved", ![r].future = out]
    /\ UNCHANGED <<emotion_model, phase, loop, queue, otherVars>>

\* classify_emotion, lines 37-40: the await ends and the result is returned
\* (an exception of classify propagates: the framework answers 500)
EmotionRespond(r) ==
    /\ loop = "idle"
    /\ rq[r].pc = "resolved"
    /\ rq' = [rq EXCEPT ![r] =
                  Answered("emotion",
                           IF rq[r].future.raised = "none"
                           THEN [code |-> 200, json |-> rq[r].future.data]
                           ELSE ServerError, 0)]
    /\ UNCHANGED <<emotion_model, phase, loop, queue, otherVars>>

ServiceUnused ==
    /\ emotion_model = "None"
    /\ phase = "unused"
    /\ loop = "idle"
    /\ rq = <<>>
    /\ queue = <<>>

(***************************************************************************)
(* Specifications                                                          *)
(***************************************************************************)
ParseNext == ParseCall /\ UNCHANGED <<emotionVars, sceneVars, serviceVars>>
InitSpecParse == ParseInit /\ EmotionUnused /\ SceneUnused /\ ServiceUnused
SpecParse == InitSpecParse /\ [][ParseNext]_vars

EmotionNext ==
    \/ EmotionExtract /\ UNCHANGED <<parseVars, sceneVars, serviceVars>>
    \/ EmotionLoop /\ UNCHANGED <<parseVars, sceneVars, serviceVars>>
    \/ EmotionReturn /\ UNCHANGED <<parseVars, sceneVars, serviceVars>>
InitSpecEmotion == EmotionInit /\ ParseUnused /\ SceneUnused /\ ServiceUnused
SpecEmotion == InitSpecEmotion /\ [][EmotionNext]_vars

SceneNext ==
    \/ SceneLoop /\ UNCHANGED <<parseVars, emotionVars, serviceVars>>
    \/ SceneNormalise /\ UNCHANGED <<parseVars, emotionVars, serviceVars>>
InitSpecScene == SceneInit /\ ParseUnused /\ EmotionUnused /\ ServiceUnused
SpecScene == InitSpecScene /\ [][SceneNext]_vars

Next ==
    \/ LifespanEnter
    \/ LifespanYield
    \/ LifespanFail
    \/ \E r \in Requests : Arrive(r)
    \/ \E r \in Requests : Health(r)
    \/ \E r \in Requests : EmotionStart(r)
    \/ \E r \in Requests : EmotionSubmit(r)
    \/ \E r \in Requests : WorkerTake(r)
    \/ \E r \in Requests : WorkerReturn(r)
    \/ \E r \in Requests : EmotionRespond(r)

Init == ServiceInit /\ ParseUnused /\ EmotionUnused /\ SceneUnused
Spec == Init /\ [][Next]_vars

InitAnyHost == AnyHostInit /\ ParseUnused /\ EmotionUnused /\ SceneUnused
SpecAnyHost == InitAnyHost /\ [][Next]_vars

\* The event loop runs every callback that is ready, and a free executor
\* thread takes queued work; nothing makes a classification return.
Fairness ==
    \A r \in Requests :
        /\ WF_vars(Health(r))
        /\ WF_vars(EmotionStart(r))
        /\ WF_vars(EmotionSubmit(r))
        /\ WF_vars(WorkerTake(r))
        /\ WF_vars(EmotionRespond(r))
FairSpec == Init /\ [][Next]_vars /\ Fairness

(***************************************************************************)
(* Claims                                                                  *)
(***************************************************************************)

\* ---------------------------------------------------------------- C1 ----
\* C1: when generate returns an empty list, classify returns exactly
\* label "neutral", confidence 1.0 and scores {neutral: 1.0}.
C1_EmptyOutputIsNeutral ==
    (emotion_pc = "done" /\ result = <<>>) =>
        emotion_ret = [label |-> "neutral", confidence |-> 100000,
                       scores |-> <<[key |-> "neutral", val |-> 100000]>>]

\* ---------------------------------------------------------------- C2 ----
\* pack "<f": the four bytes, least significant first, of a binary32
PackF(f) ==
    << f.fraction % 256,
       (f.fraction \div 256) % 256,
       (f.fraction \div 65536) + 128 * (f.exponent % 2),
       (f.exponent \div 2) + 128 * f.sign >>

\* C2: a buffer of 4n + r bytes (r in 0..3) decodes without an error to
\* exactly n samples, sample j being the little-endian float of bytes
\* 4j..4j+3, so the trailing r bytes are dropped; no bytes, no samples.
C2_DecoderDropsTrailingBytes ==
    parse_pc = "done" =>
        /\ samples.raised = "none"
        /\ \E n \in 0..MaxBody, r \in 0..3 :
              /\ Len(body) = 4 * n + r
              /\ Len(samples.data) = n
              /\ \A j \in 0..(n - 1) :
                    PackF(samples.data[j + 1])
                        = <<body[4 * j + 1], body[4 * j + 2], body[4 * j + 3], body[4 * j + 4]>>
        /\ (body = <<>> => samples.data = <<>>)

\* C2 witness: ten bytes were decoded to two samples, two bytes dropped.
C2_Witness ==
    /\ parse_pc = "done"
    /\ Len(body) = 10
    /\ Len(samples.data) = 2
    /\ samples.data[1] # samples.data[2]

\* ---------------------------------------------------------------- C3 ----
HealthPending(r) == rq[r].kind = "health" /\ rq[r].pc = "ready"
HealthAnswered(r) ==
    /\ rq[r].kind = "health"
    /\ rq[r].pc = "done"
    /\ rq[r].response = [code |-> 200, json |-> [status |-> "ok"]]

\* C3: a GET /health that is ready to run completes with {"status": "ok"}
\* however many POST /emotion calls are inside classify and never return,
\* and the event loop is never held: every handler that is ready can run.
C3_HealthNeverBlocked ==
    /\ [](\A r \in Requests : HealthPending(r) => ENABLED Health(r))
    /\ [](\A r \in Requests :
            (rq[r].kind = "emotion" /\ rq[r].pc \in {"ready", "await_body", "resolved"})
                => ENABLED (EmotionStart(r) \/ EmotionSubmit(r) \/ EmotionRespond(r)))
    /\ \A r \in Requests : HealthPending(r) ~> HealthAnswered(r)

\* C3 witness: a health check was answered while every executor worker was
\* inside classify and a further call was queued behind them, and they
\* still are.
C3_Witness ==
    \E r \in Requests :
        /\ HealthAnswered(r)
        /\ rq[r].inflight = MaxWorkers + 1
        /\ Cardinality({q \in Requests : rq[q].pc = "classifying"}) = MaxWorkers
        /\ queue # <<>>

\* ---------------------------------------------------------------- C4 ----
AllFive == {"speech", "music", "silence", "noise", "other"}
AnyClassScoreNonzero == \E j \in 1..Len(scores_521) : scores_521[j] # 0

\* C4: the five returned buckets sum to 1 when some class score is
\* nonzero (they are fractions over one common denominator, and their
\* numerators add up to it); when all class scores are zero the five
\* buckets are 0 and nothing was divided.
C4_BucketsSumToOne ==
    scene_pc = "done" =>
        /\ DOMAIN buckets = AllFive
        /\ IF AnyClassScoreNonzero
           THEN LET d == buckets["other"].den
                IN  /\ d > 0
                    /\ \A b \in AllFive : buckets[b].den = d /\ buckets[b].num >= 0
                    /\ SumOver([b \in AllFive |-> buckets[b].num], AllFive) = d
           ELSE /\ \A b \in AllFive : buckets[b] = [num |-> 0, den |-> 1]
                /\ ~divided

\* C4 witness: scores spread over two buckets were renormalised.
C4_Witness ==
    /\ scene_pc = "done"
    /\ divided
    /\ buckets["noise"].num > 0
    /\ buckets["other"].num > 0
    /\ buckets["noise"].den > buckets["noise"].num + buckets["other"].num

\* ---------------------------------------------------------------- C5 ----
\* the bucket the specification names for each class of the model
SpecBucket ==
    [n \in ClassNames |->
        CASE n = "Speech" -> "speech"
          [] n = "Singing" -> "music"
          [] n = "Silence" -> "silence"
          [] n = "Engine" -> "noise"
          [] OTHER -> "other"]
\* the buckets whose keyword set contains the name
Holding(name) == {b \in DOMAIN SCENE_LABELS : name \in SCENE_LABELS[b]}
\* what the first j classes give bucket b
Share(b, j) ==
    SumOver([m \in 1..j |-> IF SpecBucket[class_names[m]] = b THEN scores_521[m] ELSE 0],
            1..j)

\* C5: before renormalisation every class seen so far has given its whole
\* score to exactly one bucket, the one whose keyword set contains its
\* name ("Engine" noise, "Singing" music) or "other" when none does
\* ("Dog barking"), so the buckets add up to the class scores seen so far.
C5_EachClassInOneBucket ==
    scene_pc = "loop" =>
        /\ \A m \in 1..k :
              /\ Cardinality(Holding(class_names[m])) <= 1
              /\ Holding(class_names[m]) \in {{}, {SpecBucket[class_names[m]]}}
              /\ Holding(class_names[m]) = {} <=> SpecBucket[class_names[m]] = "other"
        /\ \A b \in AllFive : buckets[b] = [num |-> Share(b, k), den |-> 1]
        /\ BucketTotal(buckets) = SumOver([m \in 1..k |-> scores_521[m]], 1..k)

\* C5 witness: "Engine", "Singing" and "Dog barking" have been accrued.
C5_Witness ==
    /\ scene_pc = "loop"
    /\ k = 3
    /\ class_names = <<"Engine", "Singing", "Dog barking">>
    /\ scores_521 = <<2, 1, 2>>
    /\ buckets["noise"].num = 2
    /\ buckets["music"].num = 1
    /\ buckets["other"].num = 2

\* ---------------------------------------------------------------- C6 ----
Entries(d) == {d[j] : j \in 1..Len(d)}
SpecExample ==
    <<[labels |-> List(<<"happy", "angry">>), scores |-> List(<<30000, 70000>>)]>>

\* C6: the returned label is a key of the returned scores whose value no
\* other value exceeds, and confidence is scores[label]; labels
\* ["happy", "angry"] with scores [0.3, 0.7] give "angry", 0.7 and exactly
\* {happy: 0.3, angry: 0.7}.
C6_LabelIsArgmax ==
    emotion_pc = "done" =>
        /\ \E e \in Entries(emotion_ret.scores) :
              /\ e.key = emotion_ret.label
              /\ e.val = emotion_ret.confidence
              /\ \A f \in Entries(emotion_ret.scores) : f.val <= e.val
        /\ \A e, f \in Entries(emotion_ret.scores) : e.key = f.key => e = f
        /\ result = SpecExample =>
              /\ emotion_ret.label = "angry"
              /\ emotion_ret.confidence = 70000
              /\ Len(emotion_ret.scores) = 2
              /\ Entries(emotion_ret.scores)
                    = {[key |-> "happy", val |-> 30000], [key |-> "angry", val |-> 70000]}

\* C6 witness: the example of the specification was classified.
C6_Witness ==
    /\ emotion_pc = "done"
    /\ result = SpecExample
    /\ emotion_ret.label = "angry"

\* ---------------------------------------------------------------- C7 ----
\* C7: every answered GET /health answered {"status": "ok"}, whatever the
\* model handle was, and answering one leaves the handle as it was.
C7_HealthAlwaysOk ==
    /\ [](\A r \in Requests :
            (rq[r].kind = "health" /\ rq[r].pc = "done") =>
                rq[r].response = [code |-> 200, json |-> [status |-> "ok"]])
    /\ [](\A r \in Requests : HealthPending(r) /\ loop = "idle" => ENABLED Health(r))
    /\ [][(\E r \in Requests : HealthPending(r) /\ rq'[r].pc = "done")
              => emotion_model' = emotion_model]_vars

\* C7 witness: a health check was answered "ok" with emotion_model None.
C7_Witness ==
    \E r \in Requests :
        /\ HealthAnswered(r)
        /\ emotion_model = "None"
        /\ phase = "serving"

\* ---------------------------------------------------------------- C8 ----
Vocabulary == {"neutral", "happy", "angry", "sad", "frustrated", "surprised"}
VocabularyAt(n) ==
    CASE n = 0 -> "neutral" [] n = 1 -> "happy" [] n = 2 -> "angry"
      [] n = 3 -> "sad" [] n = 4 -> "frustrated" [] OTHER -> "surprised"
\* the key the claim gives the label at (0-based) position n
ClaimedKey(lbl, n) ==
    IF lbl \in Vocabulary THEN lbl
    ELSE IF n < 6 THEN VocabularyAt(n)
    ELSE lbl
\* one iteration stored val under key and touched nothing else
StoredOnly(key, val) ==
    /\ DictHas(scores', key)
    /\ DictGet(scores', key) = val
    /\ \A e \in Entries(scores) : e.key # key => e \in Entries(scores')
    /\ DictKeys(scores') = DictKeys(scores) \cup {key}

\* C8 as stated: the value stored at position i is the model score at
\* position i, or 0.0 when the score list is shorter than i+1.
C8_StoresModelScore ==
    [][i' = i + 1 =>
          StoredOnly(ClaimedKey(labels[i + 1], i),
                     IF i < Len(probs) THEN probs[i + 1] ELSE 0)]_vars

\* C8 as amended: the label at position i is stored under its own name
\* when it is in the vocabulary, else under the vocabulary entry at i when
\* i < 6, else under its own name; the value stored is the model score at
\* position i rounded to 4 decimal places, or 0.0 when the score list is
\* shorter than i+1.
C8_StoresRoundedScore ==
    [][i' = i + 1 =>
          StoredOnly(ClaimedKey(labels[i + 1], i),
                     IF i < Len(probs) THEN ((probs[i + 1] + 5) \div 10) * 10 ELSE 0)]_vars

\* C8 witness: seven labels were stored: a vocabulary label under its own
\* name where the position names another, an unrecognised one under the
\* entry of its position, one at position 6 under its own name with the
\* score list too short for it, and a score that rounding changed.
C8_Witness ==
    /\ emotion_pc = "loop"
    /\ i = 7
    /\ labels = <<"happy", "happy", "<unk>", "<unk>", "<unk>", "<unk>", "<unk>">>
    /\ probs = <<30000, 70000, 12346>>
    /\ Entries(scores) =
          { [key |-> "happy", val |-> 70000], [key |-> "angry", val |-> 12350],
            [key |-> "sad", val |-> 0], [key |-> "frustrated", val |-> 0],
            [key |-> "surprised", val |-> 0], [key |-> "<unk>", val |-> 0] }

\* ---------------------------------------------------------------- C9 ----
Capturing == {"queued", "classifying", "resolved"}

\* C9: emotion_model is assigned once, by lifespan, before any request is
\* handled; no handler changes it; every POST /emotion that reached line 38
\* took the same, non-None handle.
C9_HandleAssignedOnceAtStartup ==
    /\ [](phase \in {"startup", "loading", "failed"} =>
            /\ emotion_model = "None"
            /\ \A r \in Requests : rq[r].pc = "absent")
    /\ [](phase = "serving" => emotion_model = "EmotionClassifier")
    /\ [](\A r \in Requests :
            rq[r].pc \in Capturing => rq[r].handle = "EmotionClassifier")
    /\ [][emotion_model' # emotion_model =>
            /\ emotion_model = "None"
            /\ phase = "loading" /\ phase' = "serving"
            /\ rq' = rq]_vars

\* C9 witness: two POST /emotion are past line 38, one answered and all
\* with the handle lifespan assigned.
C9_Witness ==
    /\ emotion_model = "EmotionClassifier"
    /\ \E r, q \in Requests :
          /\ r # q
          /\ rq[r].pc = "classifying" /\ rq[r].handle = "EmotionClassifier"
          /\ rq[q].pc = "queued" /\ rq[q].handle = "EmotionClassifier"
    /\ \E r \in Requests :
          /\ rq[r].kind = "emotion" /\ rq[r].pc = "done" /\ rq[r].response.code = 200

\* --------------------------------------------------------------- C10 ----
Distinct(s) == \A a, b \in 1..Len(s) : a # b => s[a] # s[b]

\* C10: when the returned labels are pairwise distinct, the scores map has
\* one entry per returned label and each entry holds that label's score.
C10_NoEntryLost ==
    (emotion_pc = "done" /\ labels # <<>> /\ Distinct(labels)) =>
        /\ Len(emotion_ret.scores) = Len(labels)
        /\ \A j \in 1..Len(labels) :
              /\ DictHas(emotion_ret.scores, Mapped(labels[j], j - 1))
              /\ DictGet(emotion_ret.scores, Mapped(labels[j], j - 1))
                    = ScoreAt(probs, j - 1)

====
